---------------------------- MODULE Spec2Model ----------------------------
(***************************************************************************)
(* A model of the time-sankey generator: the pipeline processParquetData   *)
(* of dataProcessor.ts and the two React components (App, SankeyChart)     *)
(* that call it and draw its result.                                       *)
(*                                                                         *)
(* Number representations                                                  *)
(*   - a volume, a weight: an integer count of units of 5e-10, so that     *)
(*     the threshold 1e-9 is 2 units and a weight may lie below it;        *)
(*     a missing value (NaN/null) is NA == <<>>, a present one <<v>>.      *)
(*   - a percentage: a record [kind, c, d]; kind is "num", "nan" or "inf"; *)
(*     a "num" stands for c/10 + d * 5e-13 (c counts tenths of a percent,  *)
(*     d counts half-tolerances of the 1e-12 comparisons of getBucket).    *)
(*   - a share, an absolute value, a y coordinate: an exact fraction       *)
(*     <<numerator, denominator>>.                                         *)
(*   - an x coordinate: an integer count of 1e-6 units.                    *)
(* Calls into the dataframe library (merge, groupby/agg, dropna, ffill,    *)
(* rolling) are modelled with the pandas semantics the calls are written   *)
(* against: sums skip missing values, joins are on equal keys.             *)
(***************************************************************************)
EXTENDS Integers, Sequences, FiniteSets, TLC

VARIABLES
    fn, arg, ret,            \* a direct call of a pure helper: name, argument, result
    file,                    \* the file the user holds: columns, rows, decodability
    pc,                      \* position of handleFileUpload
    chartData, isLoading, error,   \* React state of App
    calls,                   \* number of processParquetData invocations so far
    proc,                    \* the intermediate tables of the last pipeline run
    thicknessMode, layoutMode, nodeX, nodeY,   \* React state of SankeyChart
    plot                     \* what the last Plotly.react call was given

vars == <<fn, arg, ret, file, pc, chartData, isLoading, error, calls, proc,
          thicknessMode, layoutMode, nodeX, nodeY, plot>>

callVars == <<fn, arg, ret>>
appVars == <<file, pc, chartData, isLoading, error, calls, proc>>
chartVars == <<thicknessMode, layoutMode, nodeX, nodeY, plot>>

-----------------------------------------------------------------------------
(* Generic helpers *)

NA == <<>>
Num(v) == <<v>>
IsNa(x) == x = NA
Val(x) == x[1]

Max2(a, b) == IF a >= b THEN a ELSE b
Min2(a, b) == IF a <= b THEN a ELSE b
AbsInt(a) == IF a < 0 THEN -a ELSE a

Range(s) == {s[i] : i \in DOMAIN s}

RECURSIVE SumSeq(_)
SumSeq(s) == IF s = <<>> THEN 0 ELSE Head(s) + SumSeq(Tail(s))

RECURSIVE SumOver(_, _)
\* the sum of f[x] over the finite set S
SumOver(S, f) ==
    IF S = {} THEN 0
    ELSE LET x == CHOOSE y \in S : TRUE IN f[x] + SumOver(S \ {x}, f)

RECURSIVE SortInts(_)
\* ascending order of a sequence of integers (Array.prototype.sort((a,b) => a-b))
SortInts(s) ==
    IF s = <<>> THEN <<>>
    ELSE LET i == CHOOSE j \in DOMAIN s : \A k \in DOMAIN s : s[j] <= s[k]
             rest == [k \in 1..(Len(s) - 1) |-> IF k < i THEN s[k] ELSE s[k + 1]]
         IN <<s[i]>> \o SortInts(rest)

-----------------------------------------------------------------------------
(* Parameters of dataProcessor.ts *)

MA_MONTHS == 12
STEP_YEARS == 4

\* one percentage tolerance 1e-12, counted in units of 5e-13
EPS12 == 2

PctNum(c, d) == [kind |-> "num", c |-> c, d |-> d]
PctNaN == [kind |-> "nan", c |-> 0, d |-> 0]
PctInf == [kind |-> "inf", c |-> 0, d |-> 0]

\* a < b for two "num" percentages
PctLt(a, b) == a.c < b.c \/ (a.c = b.c /\ a.d < b.d)
PctAbs(a) == IF PctLt(a, PctNum(0, 0)) THEN PctNum(-a.c, -a.d) ELSE a

UNKNOWN_LABEL == "Unknown"
EXIT_LABEL == "Exit"

\* lo and hi in tenths of a percent, in the order of the source array
OWN_BUCKETS ==
    << [lo |-> 500, hi |-> 1001, name |-> "State >=50%"],
       [lo |-> 200, hi |-> 500, name |-> "State 20-50%"],
       [lo |-> 100, hi |-> 200, name |-> "State 10-20%"],
       [lo |-> 0, hi |-> 100, name |-> "State 0-10%"],
       [lo |-> 0, hi |-> 0, name |-> "State 0%"] >>

CAT_ORDER ==
    [i \in 1..Len(OWN_BUCKETS) |-> OWN_BUCKETS[i].name] \o <<UNKNOWN_LABEL, EXIT_LABEL>>

CatIndex(cat) == CHOOSE i \in DOMAIN CAT_ORDER : CAT_ORDER[i] = cat

GREEN == "rgba(76,175,80,0.65)"
RED == "rgba(244,67,54,0.70)"

NODE_COLORS(cat) ==
    CASE cat = "State >=50%" -> "rgba(244,67,54,0.90)"
      [] cat = "State 20-50%" -> "rgba(255,193,7,0.90)"
      [] cat = "State 10-20%" -> "rgba(0,150,136,0.90)"
      [] cat = "State 0-10%" -> "rgba(63,81,181,0.90)"
      [] cat = "State 0%" -> "rgba(33,150,243,0.90)"
      [] cat = UNKNOWN_LABEL -> "rgba(158,158,158,0.80)"
      [] cat = EXIT_LABEL -> "rgba(120,120,120,0.75)"
      [] OTHER -> "rgba(150,150,150,0.85)"

-----------------------------------------------------------------------------
(* getBucket *)

\* a variant that takes the lower edge strictly, without its tolerance
BucketMatchesExclusiveLo(b, p) ==
    /\ b.name # "State 0%"
    /\ PctLt(PctNum(b.lo, 0), p)
    /\ PctLt(p, PctNum(b.hi, EPS12))

\* the test of OWN_BUCKETS.find: p > b.lo - 1e-12 && p < b.hi + 1e-12
BucketMatches(b, p) ==
    /\ b.name # "State 0%"
    /\ PctLt(PctNum(b.lo, -EPS12), p)
    /\ PctLt(p, PctNum(b.hi, EPS12))

getBucket(p) ==
    IF p.kind # "num" THEN UNKNOWN_LABEL
    ELSE IF PctLt(PctAbs(p), PctNum(0, EPS12)) THEN "State 0%"
    ELSE LET hits == {i \in DOMAIN OWN_BUCKETS : BucketMatches(OWN_BUCKETS[i], p)}
         IN IF hits = {} THEN UNKNOWN_LABEL
            ELSE OWN_BUCKETS[CHOOSE i \in hits : \A j \in hits : i <= j].name

-----------------------------------------------------------------------------
(* buildYearGrid *)

RECURSIVE GridLoop(_, _, _, _)
\* the for loop: push y while y <= max_year, stepping by step
GridLoop(y, max_year, step, years) ==
    IF y <= max_year THEN GridLoop(y + step, max_year, step, Append(years, y))
    ELSE years

\* a variant that appends max_year whether or not the loop ended on it
buildYearGridAppendAlways(min_year, max_year, step) ==
    Append(GridLoop(min_year, max_year, step, <<>>), max_year)

buildYearGrid(min_year, max_year, step) ==
    LET years == GridLoop(min_year, max_year, step, <<>>)
    IN IF Len(years) = 0 \/ years[Len(years)] < max_year
       THEN Append(years, max_year)
       ELSE years

-----------------------------------------------------------------------------
(* Tables.  A row of the input table is a record                           *)
(*   [REGN, DT, state_equity_pct, total_deposits], DT == <<year, month>>.  *)
(* The specifications draw tables whose (REGN, DT) keys are distinct, so   *)
(* every sort below has one result.                                        *)

INDICATOR_COL == "total_deposits"
REQUIRED_COLS == <<"DT", "REGN", INDICATOR_COL, "state_equity_pct">>

\* isNa of a cell of column c
IsMissing(c, x) == IF c = "state_equity_pct" THEN x.kind = "nan" ELSE x = NA

\* (REGN, year, DT) order; year is DT's year, so this is also (REGN, DT) order
RowLt(a, b) ==
    \/ a.REGN < b.REGN
    \/ a.REGN = b.REGN /\ a.DT[1] < b.DT[1]
    \/ a.REGN = b.REGN /\ a.DT[1] = b.DT[1] /\ a.DT[2] < b.DT[2]

RECURSIVE SortRows(_)
\* sortValues(['REGN', 'DT']) and sortValues(['REGN', 'year', 'DT'])
SortRows(s) ==
    IF s = <<>> THEN <<>>
    ELSE LET i == CHOOSE j \in DOMAIN s : \A k \in DOMAIN s : ~RowLt(s[k], s[j])
             rest == [k \in 1..(Len(s) - 1) |-> IF k < i THEN s[k] ELSE s[k + 1]]
         IN <<s[i]>> \o SortRows(rest)

RECURSIVE UniqueFrom(_, _, _)
UniqueFrom(s, i, seen) ==
    IF i > Len(s) THEN seen
    ELSE UniqueFrom(s, i + 1, IF s[i] \in Range(seen) THEN seen ELSE Append(seen, s[i]))

\* the distinct elements of a sequence, in order of first appearance
Unique(s) == UniqueFrom(s, 1, <<>>)

RECURSIVE Concat(_)
Concat(ss) == IF ss = <<>> THEN <<>> ELSE Head(ss) \o Concat(Tail(ss))

-----------------------------------------------------------------------------
(* standardizePercent *)

\* the k-th (0-based) element of the ascending order of the percentages in s
PctRank(s, k) ==
    LET v == CHOOSE i \in DOMAIN s :
                 /\ Cardinality({j \in DOMAIN s : PctLt(s[j], s[i])}) <= k
                 /\ k < Cardinality({j \in DOMAIN s : ~PctLt(s[i], s[j])})
    IN s[v]

\* the series unchanged when the rank value exceeds 1.5, else times 100
Rescale(series, p95_val) ==
    IF PctLt(PctNum(15, 0), p95_val) THEN series
    ELSE [i \in DOMAIN series |->
             IF series[i].kind = "nan" THEN series[i]
             ELSE PctNum(series[i].c * 100, series[i].d * 100)]

RescaleBy(series, absArr) ==
    Rescale(series, PctRank(absArr, (95 * (Len(absArr) - 1)) \div 100))

AbsOfPresent(arr) == [i \in DOMAIN arr |-> PctAbs(arr[i])]

standardizePercent(series) ==
    IF SelectSeq(series, LAMBDA x : x.kind # "nan") = <<>> THEN series
    ELSE RescaleBy(series, AbsOfPresent(SelectSeq(series, LAMBDA x : x.kind # "nan")))

-----------------------------------------------------------------------------
(* Rolling mean of one entity's volume column.                             *)
(* A table that several later expressions read is handed on as a           *)
(* parameter, so that each stage is computed once.                         *)

min_periods == Max2(1, MA_MONTHS \div 3)

\* the mean of a window: NA below minPeriods defined values, else their mean
\* rounded down to the unit
WindowMean(present, minPeriods) ==
    IF Len(present) >= minPeriods
    THEN Num(SumSeq([j \in DOMAIN present |-> Val(present[j])]) \div Len(present))
    ELSE NA

\* a variant that tests minPeriods against the rows of the window, missing or not
RollingMeanByRowCount(vals, window, minPeriods) ==
    [i \in DOMAIN vals |->
        IF i - Max2(1, i - window + 1) + 1 >= minPeriods
        THEN WindowMean(SelectSeq(SubSeq(vals, Max2(1, i - window + 1), i),
                                  LAMBDA x : ~IsNa(x)),
                        1)
        ELSE NA]

\* rolling(window, {minPeriods}).mean()
RollingMean(vals, window, minPeriods) ==
    [i \in DOMAIN vals |->
        WindowMean(SelectSeq(SubSeq(vals, Max2(1, i - window + 1), i),
                             LAMBDA x : ~IsNa(x)),
                   minPeriods)]

\* groupedByRegn.getGroup([key])[INDICATOR_COL]
GroupIndicator(DF, key) ==
    LET group == SelectSeq(DF, LAMBDA r : r.REGN = key)
    IN [i \in DOMAIN group |-> group[i][INDICATOR_COL]]

\* maValues: the rolling means group by group, in the order of regnKeys
MaValues(DF, regnKeys) ==
    Concat([k \in DOMAIN regnKeys |->
               RollingMean(GroupIndicator(DF, regnKeys[k]), MA_MONTHS, min_periods)])

\* DF.addColumn('indicator_ma', maValues): attached by position
AddColumnMa(DF, maValues) ==
    [i \in DOMAIN DF |->
        [REGN |-> DF[i].REGN, DT |-> DF[i].DT,
         state_equity_pct |-> DF[i].state_equity_pct,
         total_deposits |-> DF[i].total_deposits,
         indicator_ma |-> maValues[i]]]

\* DF, sorted by (REGN, DT), with its column indicator_ma
SortedWithMa(DF) ==
    AddColumnMa(DF, MaValues(DF, SortInts(Unique([i \in DOMAIN DF |-> DF[i].REGN]))))

WithIndicatorMa(rows) == SortedWithMa(SortRows(rows))

-----------------------------------------------------------------------------
(* yearEndSnapshotFfill *)

RECURSIVE FillFrom(_, _, _, _)
FillFrom(c, col, i, done) ==
    IF i > Len(col) THEN done
    ELSE FillFrom(c, col, i + 1,
                  Append(done, IF IsMissing(c, col[i]) /\ i > 1 THEN done[i - 1] ELSE col[i]))

\* a variant that fills nothing
FillNaSkipped(c, col) == col

\* fillNa({method: 'ffill'}) of one column: a missing cell takes the cell before it
FillNa(c, col) == FillFrom(c, col, 1, <<>>)

\* one (REGN, year) group with each of cols forward-filled
FilledGroup(group, cols) ==
    [i \in DOMAIN group |->
        [c \in {"REGN", "DT", "year"} \cup Range(cols) |->
            IF c = "REGN" THEN group[i].REGN
            ELSE IF c = "DT" THEN group[i].DT
            ELSE IF c = "year" THEN group[i].DT[1]
            ELSE FillNa(c, [j \in DOMAIN group |-> group[j][c]])[i]]]

\* the concat of the filled groups, sorted again by (REGN, year, DT)
FilledDf(tmp, uniqueKeys, cols) ==
    SortRows(Concat([k \in DOMAIN uniqueKeys |->
        FilledGroup(SelectSeq(tmp, LAMBDA r : <<r.REGN, r.DT[1]>> = uniqueKeys[k]), cols)]))

LastRow(group) == group[Len(group)]

\* groupby(['REGN', 'year']).tail(1)
Tail1(filledDf, uniqueKeys) ==
    [k \in DOMAIN uniqueKeys |->
        LastRow(SelectSeq(filledDf, LAMBDA r : <<r.REGN, r.year>> = uniqueKeys[k]))]

SnapshotOfKeys(tmp, uniqueKeys, cols) == Tail1(FilledDf(tmp, uniqueKeys, cols), uniqueKeys)

SnapshotOfSorted(tmp, cols) ==
    SnapshotOfKeys(tmp, Unique([i \in DOMAIN tmp |-> <<tmp[i].REGN, tmp[i].DT[1]>>]), cols)

yearEndSnapshotFfill(dataframe, cols) == SnapshotOfSorted(SortRows(dataframe), cols)

-----------------------------------------------------------------------------
(* Weights: merge of the two snapshots, transform, clip, bucket *)

\* ln(|v| + 1) at a resolution of one unit (5e-10): v - v^2/2, which in units
\* is a - a*a/(4*10^9); the later terms of the series are below one unit for
\* the volumes the specifications draw
Ln1p(a) == a - ((a \div 1000) * (a \div 1000)) \div 4000

\* the indicator_raw a snapshot row gets from merge(how: 'left', on: ['REGN', 'year'])
RawOf(RAW_SNAP, r) ==
    LET m == SelectSeq(RAW_SNAP, LAMBDA q : q.REGN = r.REGN /\ q.year = r.year)
    IN IF m = <<>> THEN NA ELSE m[1][INDICATOR_COL]

\* a variant that gives the logarithm the sign of s back before the clip at 0
MergedRowSigned(r, indicator_raw, s) ==
    [REGN |-> r.REGN, DT |-> r.DT, year |-> r.year,
     state_equity_pct |-> r.state_equity_pct,
     indicator_raw |-> indicator_raw,
     indicator_ma |-> s,
     w_t |-> IF IsNa(s) THEN NA
             ELSE Num(Max2((IF Val(s) < 0 THEN -1 ELSE 1) * Ln1p(AbsInt(Val(s))), 0)),
     w_raw |-> IF IsNa(s) THEN NA ELSE Num(Max2(Val(s), 0))]

\* a merged row: s is indicator_ma, or indicator_raw where indicator_ma is missing
MergedRow(r, indicator_raw, s) ==
    [REGN |-> r.REGN, DT |-> r.DT, year |-> r.year,
     state_equity_pct |-> r.state_equity_pct,
     indicator_raw |-> indicator_raw,
     indicator_ma |-> s,
     w_t |-> IF IsNa(s) THEN NA ELSE Num(Max2(Ln1p(AbsInt(Val(s))), 0)),
     w_raw |-> IF IsNa(s) THEN NA ELSE Num(Max2(Val(s), 0))]

FillMa(r, indicator_raw) ==
    MergedRow(r, indicator_raw,
              IF IsNa(r.indicator_ma) THEN indicator_raw ELSE r.indicator_ma)

MergeSnaps(SNAP, RAW_SNAP) ==
    [i \in DOMAIN SNAP |-> FillMa(SNAP[i], RawOf(RAW_SNAP, SNAP[i]))]

MergedOfDf(DF) ==
    MergeSnaps(yearEndSnapshotFfill(DF, <<"state_equity_pct", "indicator_ma">>),
               yearEndSnapshotFfill(DF, <<INDICATOR_COL>>))

\* the merged table before the global clip
MergedSnap(rows) == MergedOfDf(WithIndicatorMa(rows))

\* <<lo, hi>> of the sorted defined weights arr, or <<>> when there is none
RankBounds(arr) ==
    IF Len(arr) = 0 THEN <<>>
    ELSE <<arr[((2 * (Len(arr) - 1)) \div 100) + 1],
           arr[((98 * (Len(arr) - 1)) \div 100) + 1]>>

\* the bounds of the global clip
ClipBounds(ws) ==
    LET present == SelectSeq(ws, LAMBDA x : ~IsNa(x))
    IN RankBounds(SortInts([i \in DOMAIN present |-> Val(present[i])]))

\* a variant that forgets the lower bound
ClipUpperOnly(w, lo, hi) == IF IsNa(w) THEN NA ELSE Num(Min2(Val(w), hi))

Clip(w, lo, hi) == IF IsNa(w) THEN NA ELSE Num(Min2(Max2(Val(w), lo), hi))

\* the clip, applied when hi > lo, and the bucket column
ClipAndBucket(m, b) ==
    [i \in DOMAIN m |->
        [REGN |-> m[i].REGN, DT |-> m[i].DT, year |-> m[i].year,
         state_equity_pct |-> m[i].state_equity_pct,
         indicator_raw |-> m[i].indicator_raw,
         indicator_ma |-> m[i].indicator_ma,
         w_t |-> IF b # <<>> /\ b[2] > b[1] THEN Clip(m[i].w_t, b[1], b[2]) ELSE m[i].w_t,
         w_raw |-> m[i].w_raw,
         bucket |-> getBucket(m[i].state_equity_pct)]]

WeightedOfMerged(m) == ClipAndBucket(m, ClipBounds([i \in DOMAIN m |-> m[i].w_t]))

\* mergedSnap as the flow stage reads it: clipped weights and the bucket column
WeightedSnap(rows) == WeightedOfMerged(MergedSnap(rows))

-----------------------------------------------------------------------------
(* Flows of one step (y0, y1) *)

\* the sum of the defined numbers of a sequence of optional numbers
SumDefined(s) ==
    LET present == SelectSeq(s, LAMBDA x : ~IsNa(x))
    IN SumSeq([i \in DOMAIN present |-> Val(present[i])])

\* a variant that keeps every y0 row, matched at y1 or not
ExitRowsAll(s0, s1) == s0

\* the rows of the left merge marked left_only: y0 rows with no y1 row of the REGN
ExitRows(s0, s1) ==
    SelectSeq(s0, LAMBDA r : \A j \in DOMAIN s1 : s1[j].REGN # r.REGN)

JoinedWith(r, m) ==
    [j \in DOMAIN m |->
        [REGN |-> r.REGN, cat_from |-> r.cat_from, w |-> r.w, raw |-> r.raw,
         cat_to |-> m[j].cat_to]]

\* merge(how: 'inner', on: ['REGN']).dropna()
ActiveRows(s0, s1) ==
    SelectSeq(Concat([i \in DOMAIN s0 |->
                  JoinedWith(s0[i], SelectSeq(s1, LAMBDA q : q.REGN = s0[i].REGN))]),
              LAMBDA r : ~IsNa(r.w) /\ ~IsNa(r.raw))

\* a variant that records an exit at the next grid year
ExitLevelToNext(y0, y1) == y1

\* the year an exit edge is recorded at
ExitLevelTo(y0, y1) == y0

\* one aggregated group g: sum(w), count(REGN), sum(raw)
AggRow(g, cat_from, cat_to, level_from, level_to, flow_type) ==
    [cat_from |-> cat_from, cat_to |-> cat_to,
     weight |-> SumDefined([i \in DOMAIN g |-> g[i].w]),
     count |-> Len(g),
     raw_sum |-> SumDefined([i \in DOMAIN g |-> g[i].raw]),
     level_from |-> level_from, level_to |-> level_to, flow_type |-> flow_type]

\* both.groupby(['cat_from', 'cat_to']).agg(...), groups in order of appearance
AggActive(both, keys, y0, y1) ==
    [k \in DOMAIN keys |->
        AggRow(SelectSeq(both, LAMBDA r : <<r.cat_from, r.cat_to>> = keys[k]),
               keys[k][1], keys[k][2], y0, y1, "active")]

\* exits.groupby(['cat_from']).agg(...), with cat_to = Exit
AggExit(exits, keys, y0, y1) ==
    [k \in DOMAIN keys |->
        AggRow(SelectSeq(exits, LAMBDA r : r.cat_from = keys[k]),
               keys[k], EXIT_LABEL, y0, ExitLevelTo(y0, y1), "exit")]

ActiveFlows(both, y0, y1) ==
    AggActive(both, Unique([i \in DOMAIN both |-> <<both[i].cat_from, both[i].cat_to>>]),
              y0, y1)

ExitFlows(exits, y0, y1) ==
    AggExit(exits, Unique([i \in DOMAIN exits |-> exits[i].cat_from]), y0, y1)

FlowsOf(s0, s1, y0, y1) ==
    ActiveFlows(ActiveRows(s0, s1), y0, y1) \o ExitFlows(ExitRows(s0, s1), y0, y1)

\* s0: the y0 rows renamed to [REGN, cat_from, w, raw]
S0(mergedSnap, y0) ==
    LET at0 == SelectSeq(mergedSnap, LAMBDA r : r.year = y0)
    IN [i \in DOMAIN at0 |->
           [REGN |-> at0[i].REGN, cat_from |-> at0[i].bucket,
            w |-> at0[i].w_t, raw |-> at0[i].w_raw]]

\* s1: the y1 rows renamed to [REGN, cat_to]
S1(mergedSnap, y1) ==
    LET at1 == SelectSeq(mergedSnap, LAMBDA r : r.year = y1)
    IN [i \in DOMAIN at1 |-> [REGN |-> at1[i].REGN, cat_to |-> at1[i].bucket]]

StepFlows(mergedSnap, y0, y1) == FlowsOf(S0(mergedSnap, y0), S1(mergedSnap, y1), y0, y1)

\* linkRows: the flows of every consecutive pair of the grid, in grid order
LinkRows(mergedSnap, YEARS) ==
    Concat([i \in 1..(Len(YEARS) - 1) |-> StepFlows(mergedSnap, YEARS[i], YEARS[i + 1])])

-----------------------------------------------------------------------------
(* Nodes, links and layout *)

\* every (year, category) of the grid, year by year in CAT_ORDER; a node key
\* <<year, cat>> stands for the label "<year>: <cat>"
AllNodes(YEARS) ==
    Unique(Concat([i \in DOMAIN YEARS |->
                      [j \in DOMAIN CAT_ORDER |-> <<YEARS[i], CAT_ORDER[j]>>]]))

\* a variant of node_id that counts the positions from 1
NodeIdOneBased(nodes, key) ==
    IF \E i \in DOMAIN nodes : nodes[i] = key
    THEN CHOOSE i \in DOMAIN nodes : nodes[i] = key
    ELSE "undefined"

\* node_id[key]: the 0-based position of a key in nodes, undefined for a key
\* that is not a node
NodeId(nodes, key) ==
    IF \E i \in DOMAIN nodes : nodes[i] = key
    THEN (CHOOSE i \in DOMAIN nodes : nodes[i] = key) - 1
    ELSE "undefined"

\* the share threshold 1e-9 and the column threshold 1e-9, in weight units
EPS9 == 2
UNIT_SCALE == 1000000000

\* a variant that totals a step by its source year alone
StepTotalByYearFrom(linkRows, e) ==
    LET same == SelectSeq(linkRows, LAMBDA r : r.level_from = e.level_from)
    IN SumSeq([i \in DOMAIN same |-> same[i].weight])

\* groupby(['level_from', 'level_to'])['weight'].transform('sum') at edge e
StepTotal(linkRows, e) ==
    LET same == SelectSeq(linkRows,
                    LAMBDA r : r.level_from = e.level_from /\ r.level_to = e.level_to)
    IN SumSeq([i \in DOMAIN same |-> same[i].weight])

\* w / step_total * 100 as a fraction, 0 when the step total is not above 1e-9
ValueShare(w, step_total) ==
    IF step_total > EPS9 THEN <<100 * w, step_total>> ELSE <<0, 1>>

Link(l, nodes, share) ==
    [source |-> NodeId(nodes, <<l.level_from, l.cat_from>>),
     target |-> NodeId(nodes, <<l.level_to, l.cat_to>>),
     weight |-> l.weight,
     value_abs |-> <<l.weight, UNIT_SCALE>>,
     value_share |-> share,
     color |-> IF l.flow_type = "active" THEN GREEN ELSE RED,
     customdata |-> <<share, <<l.raw_sum, UNIT_SCALE>>>>]

Links(linkRows, nodes) ==
    [i \in DOMAIN linkRows |->
        Link(linkRows[i], nodes,
             ValueShare(linkRows[i].weight, StepTotal(linkRows, linkRows[i])))]

\* margins in 1e-6 units
LEFT_MARGIN == 50000
RIGHT_MARGIN == 50000
EPS_EXIT == 1
ONE_MICRO == 1000000

\* xpos[year] = LEFT_MARGIN + i * dx
Xpos(YEARS, year) ==
    LEFT_MARGIN
    + (((CHOOSE k \in DOMAIN YEARS : YEARS[k] = year) - 1)
       * (ONE_MICRO - LEFT_MARGIN - RIGHT_MARGIN)) \div (Len(YEARS) - 1)

\* a variant that leaves the Exit node on its column
XsWithoutShift(nodes, YEARS) == [n \in DOMAIN nodes |-> Xpos(YEARS, nodes[n][1])]

\* xpos[year] + (cat === EXIT_LABEL ? EPS_EXIT : 0), in 1e-6 units
Xs(nodes, YEARS) ==
    [n \in DOMAIN nodes |->
        Xpos(YEARS, nodes[n][1]) + (IF nodes[n][2] = EXIT_LABEL THEN EPS_EXIT ELSE 0)]

\* nodeWeights: the weight of the links a node is the source or the target of
NodeWeights(nodes, links) ==
    [n \in DOMAIN nodes |->
        LET touching == SelectSeq(links, LAMBDA l : l.source = n - 1)
                        \o SelectSeq(links, LAMBDA l : l.target = n - 1)
        IN SumSeq([i \in DOMAIN touching |-> touching[i].weight])]

\* a variant that keeps the centre of the span as measured from the top
NodeYFromTop(tot, cum, w, num, i) ==
    IF tot > EPS9
    THEN <<2 * tot + 18 * (2 * cum + w), 40 * tot>>
    ELSE <<2 * num + 18 * (2 * i + 1), 40 * num>>

\* the y of a node of a column: tot is the column's weight, cum the weight of
\* the nodes above it, w its own, num the column's size, i its rank.
\*   1 - (0.05 + 0.9 * (cum + w/2) / tot) = (38*tot - 18*(2*cum + w)) / (40*tot)
\*   1 - (0.05 + i*step + step/2), step = 0.9/num, = (38*num - 18*(2*i + 1)) / (40*num)
NodeY(tot, cum, w, num, i) ==
    IF tot > EPS9
    THEN <<38 * tot - 18 * (2 * cum + w), 40 * tot>>
    ELSE <<38 * num - 18 * (2 * i + 1), 40 * num>>

\* the nodes of the column of node n, and those sorted before it
Column(nodes, n) == {m \in DOMAIN nodes : nodes[m][1] = nodes[n][1]}
Above(nodes, n) ==
    {m \in DOMAIN nodes : nodes[m][1] = nodes[n][1]
                          /\ CatIndex(nodes[m][2]) < CatIndex(nodes[n][2])}

YsOfWeights(nodes, nodeWeights) ==
    [n \in DOMAIN nodes |->
        NodeY(SumOver(Column(nodes, n), nodeWeights),
              SumOver(Above(nodes, n), nodeWeights),
              nodeWeights[n],
              Cardinality(Column(nodes, n)),
              Cardinality(Above(nodes, n)))]

Ys(nodes, links, YEARS) == YsOfWeights(nodes, NodeWeights(nodes, links))

TITLE == "Ownership buckets (step=4y) - Weight = 12M MA of total_deposits"

-----------------------------------------------------------------------------
(* processParquetData *)

EmptyData ==
    [nodes |-> <<>>, node_colors |-> <<>>, xs |-> <<>>, ys |-> <<>>,
     links |-> <<>>, title |-> ""]

Failure(msg, col) ==
    [ok |-> FALSE, error |-> [message |-> msg, column |-> col],
     mergedSnap |-> <<>>, YEARS |-> <<>>, linkRows |-> <<>>, data |-> EmptyData]

ERR_DECODE == "tableFromIPC failed"
ERR_COLUMN == "Expected column not found in data"
ERR_STEPS == "Not enough annual steps to build a time-sankey."
ERR_FLOWS == "No flows computed. Check data availability across 4-year steps."

\* a variant of the column check that lets an absent percentage column through
MissingColumnsLax(columns) ==
    SelectSeq(REQUIRED_COLS, LAMBDA c : c \notin columns /\ c # "state_equity_pct")

\* the required columns the table lacks, in the order they are tested
MissingColumns(columns) == SelectSeq(REQUIRED_COLS, LAMBDA c : c \notin columns)

\* stages 4 to 6: the returned SankeyData
SankeyOf(YEARS, nodes, links) ==
    [nodes |-> nodes,
     node_colors |-> [n \in DOMAIN nodes |-> NODE_COLORS(nodes[n][2])],
     xs |-> Xs(nodes, YEARS),
     ys |-> Ys(nodes, links, YEARS),
     links |-> links,
     title |-> TITLE]

Built(mergedSnap, YEARS, linkRows, nodes) ==
    [ok |-> TRUE, error |-> [message |-> "", column |-> ""],
     mergedSnap |-> mergedSnap, YEARS |-> YEARS, linkRows |-> linkRows,
     data |-> SankeyOf(YEARS, nodes, Links(linkRows, nodes))]

Aborted(msg, mergedSnap, YEARS) ==
    [ok |-> FALSE, error |-> [message |-> msg, column |-> ""],
     mergedSnap |-> mergedSnap, YEARS |-> YEARS, linkRows |-> <<>>, data |-> EmptyData]

\* from the flows on: fails when no flow was computed
FromFlows(mergedSnap, YEARS, linkRows) ==
    IF Len(linkRows) = 0 THEN Aborted(ERR_FLOWS, mergedSnap, YEARS)
    ELSE Built(mergedSnap, YEARS, linkRows, AllNodes(YEARS))

\* from the grid on: fails on a grid of fewer than 2 years
FromGrid(mergedSnap, YEARS) ==
    IF Len(YEARS) < 2 THEN Aborted(ERR_STEPS, mergedSnap, YEARS)
    ELSE FromFlows(mergedSnap, YEARS, LinkRows(mergedSnap, YEARS))

MinOf(S) == CHOOSE y \in S : \A z \in S : y <= z
MaxOf(S) == CHOOSE y \in S : \A z \in S : y >= z

YearsOf(mergedSnap) == {mergedSnap[i].year : i \in DOMAIN mergedSnap}

\* stage 3 on: min_year, max_year and the grid
FromSnap(mergedSnap) ==
    FromGrid(mergedSnap,
             buildYearGrid(MinOf(YearsOf(mergedSnap)), MaxOf(YearsOf(mergedSnap)),
                           STEP_YEARS))

\* DF['state_equity_pct'] = standardizePercent(DF['state_equity_pct'])
SetPct(rows, std) ==
    [i \in DOMAIN rows |->
        [REGN |-> rows[i].REGN, DT |-> rows[i].DT,
         state_equity_pct |-> std[i],
         total_deposits |-> rows[i].total_deposits]]

Standardized(rows) ==
    SetPct(rows, standardizePercent([i \in DOMAIN rows |-> rows[i].state_equity_pct]))

\* the run on a decoded table with every required column
Pipeline(rows) == FromSnap(WeightedSnap(Standardized(rows)))

\* the run once the table is decoded
Checked(f, missing) ==
    IF missing # <<>> THEN Failure(ERR_COLUMN, missing[1]) ELSE Pipeline(f.rows)

\* f is a file: [decodes, columns, rows]
processParquetData(f) ==
    IF ~f.decodes THEN Failure(ERR_DECODE, "") ELSE Checked(f, MissingColumns(f.columns))

-----------------------------------------------------------------------------
(* App: handleFileUpload and what it renders *)

NULL == <<>>
Some(x) == <<x>>

\* the file input is rendered: !chartData && !isLoading && !error
InputRendered == chartData = NULL /\ ~isLoading /\ error = NULL

\* SankeyChart is rendered: chartData is not null
ChartRendered == chartData # NULL

\* link.value of the plot: value_abs or value_share of the computed links
PlotValues(data, mode) ==
    [i \in DOMAIN data.links |->
        IF mode = "abs" THEN data.links[i].value_abs ELSE data.links[i].value_share]

\* the trace the second effect of SankeyChart hands to Plotly.react
Plotted(data, mode, arrangement, x, y) ==
    [arrangement |-> arrangement, label |-> data.nodes, color |-> data.node_colors,
     x |-> x, y |-> y,
     source |-> [i \in DOMAIN data.links |-> data.links[i].source],
     target |-> [i \in DOMAIN data.links |-> data.links[i].target],
     value |-> PlotValues(data, mode),
     title |-> data.title]

NoPlot == Plotted(EmptyData, "abs", "fixed", <<>>, <<>>)

\* the message App shows for a rejected run
Failed(err) == [prefix |-> "Failed to process file", message |-> err.message,
                column |-> err.column]

\* handleFileUpload when the change event carries no file: early return
UploadNoFile ==
    /\ InputRendered
    /\ UNCHANGED vars

\* a variant of handleFileUpload that leaves isLoading alone before its
\* first await
UploadKeepsInput ==
    /\ InputRendered
    /\ error' = NULL
    /\ chartData' = NULL
    /\ pc' = "arrayBuffer"
    /\ UNCHANGED <<file, isLoading, calls, proc, callVars, chartVars>>

\* handleFileUpload up to its first await; the change event comes from the
\* file input, so the handler starts only while the input is rendered
Upload ==
    /\ InputRendered
    /\ isLoading' = TRUE
    /\ error' = NULL
    /\ chartData' = NULL
    /\ pc' = "arrayBuffer"
    /\ UNCHANGED <<file, calls, proc, callVars, chartVars>>

\* file.arrayBuffer() rejects: catch, then finally
BufferRejected ==
    /\ pc = "arrayBuffer"
    /\ error' = Some(Failed([message |-> "arrayBuffer failed", column |-> ""]))
    /\ isLoading' = FALSE
    /\ pc' = "done"
    /\ UNCHANGED <<file, chartData, calls, proc, callVars, chartVars>>

\* file.arrayBuffer() resolves and processParquetData is called with the buffer
BufferResolved ==
    /\ pc = "arrayBuffer"
    /\ calls' = calls + 1
    /\ proc' = processParquetData(file)
    /\ pc' = "processParquetData"
    /\ UNCHANGED <<file, chartData, isLoading, error, callVars, chartVars>>

\* the run resolves: setChartData(data), finally; SankeyChart mounts and plots
ProcessResolved ==
    /\ pc = "processParquetData"
    /\ proc.ok
    /\ chartData' = Some(proc.data)
    /\ isLoading' = FALSE
    /\ pc' = "done"
    /\ thicknessMode' = "abs"
    /\ layoutMode' = "fixed"
    /\ nodeX' = proc.data.xs
    /\ nodeY' = proc.data.ys
    /\ plot' = Plotted(proc.data, "abs", "fixed", proc.data.xs, proc.data.ys)
    /\ UNCHANGED <<file, error, calls, proc, callVars>>

\* the run rejects: catch sets the error, finally clears isLoading
ProcessRejected ==
    /\ pc = "processParquetData"
    /\ ~proc.ok
    /\ error' = Some(Failed(proc.error))
    /\ isLoading' = FALSE
    /\ pc' = "done"
    /\ UNCHANGED <<file, chartData, calls, proc, callVars, chartVars>>

-----------------------------------------------------------------------------
(* SankeyChart: the handlers, each with the re-plot its state change causes *)

Data == chartData[1]
NODE_X_DEFAULT == Data.xs
NODE_Y_DEFAULT == Data.ys

Replot == plot' = Plotted(Data, thicknessMode', layoutMode', nodeX', nodeY')

\* a variant of the thickness buttons that also puts the nodes back
SetThicknessModeAndReset(mode) ==
    /\ ChartRendered
    /\ thicknessMode' = mode
    /\ nodeX' = NODE_X_DEFAULT
    /\ nodeY' = NODE_Y_DEFAULT
    /\ UNCHANGED layoutMode
    /\ Replot
    /\ UNCHANGED <<appVars, callVars>>

\* the thickness buttons: setThicknessMode(mode)
SetThicknessMode(mode) ==
    /\ ChartRendered
    /\ thicknessMode' = mode
    /\ UNCHANGED <<layoutMode, nodeX, nodeY>>
    /\ Replot
    /\ UNCHANGED <<appVars, callVars>>

\* the layout buttons: setLayoutMode(mode)
SetLayoutMode(mode) ==
    /\ ChartRendered
    /\ layoutMode' = mode
    /\ UNCHANGED <<thicknessMode, nodeX, nodeY>>
    /\ Replot
    /\ UNCHANGED <<appVars, callVars>>

\* a variant of the listener that keeps the dragged horizontal positions
RestyleNodeXDragged(eventData) == eventData.x

\* the nodeX the listener sets: the default positions
RestyleNodeX(eventData) == NODE_X_DEFAULT

\* restyleListener on a plotly_restyle event; eventData.hasY says whether the
\* event carries 'node.y'
Restyle(eventData) ==
    /\ ChartRendered
    /\ IF layoutMode = "freeform" /\ eventData.hasY
       THEN /\ nodeX' = RestyleNodeX(eventData)
            /\ nodeY' = eventData.y
       ELSE UNCHANGED <<nodeX, nodeY>>
    /\ UNCHANGED <<thicknessMode, layoutMode>>
    /\ Replot
    /\ UNCHANGED <<appVars, callVars>>

\* the Reset Positions button
resetPositions ==
    /\ ChartRendered
    /\ layoutMode' = "fixed"
    /\ nodeX' = NODE_X_DEFAULT
    /\ nodeY' = NODE_Y_DEFAULT
    /\ UNCHANGED thicknessMode
    /\ Replot
    /\ UNCHANGED <<appVars, callVars>>

-----------------------------------------------------------------------------
(* Direct calls of the pure helpers *)

CallGetBucket ==
    /\ fn = "getBucket"
    /\ ret = <<>>
    /\ ret' = <<getBucket(arg[1])>>
    /\ UNCHANGED <<fn, arg, appVars, chartVars>>

CallBuildYearGrid ==
    /\ fn = "buildYearGrid"
    /\ ret = <<>>
    /\ ret' = <<buildYearGrid(arg[1], arg[2], arg[3])>>
    /\ UNCHANGED <<fn, arg, appVars, chartVars>>

-----------------------------------------------------------------------------
(* Bounds and the inputs the specifications draw *)

MaxTiny == 3        \* percentages lie within MaxTiny * 5e-13 of a tenth of a percent
MaxYear == 9        \* years are 0..MaxYear
MaxRows == 5        \* rows of a table of the flow specification
MaxUIRows == 2      \* rows of a table of the chart specification
MaxDragNodes == 1   \* nodes a drag may move

\* tenths of a percent around every edge of OWN_BUCKETS
BucketCs == {-100, -1, 0, 1, 50, 99, 100, 101, 199, 200, 201, 499, 500, 501,
             1000, 1001, 1002, 5000}

BucketInputs ==
    {PctNum(c, d) : c \in BucketCs, d \in (-MaxTiny)..MaxTiny} \cup {PctNaN, PctInf}

\* what a cell (one entity in one year) of a drawn table may hold: a december
\* row with one of these (percentage, volume) pairs, or no row (option 0)
CellOptions ==
    << [pct |-> PctNum(500, 0), dep |-> Num(200000)],
       [pct |-> PctNum(0, 0), dep |-> Num(1)],
       [pct |-> PctNaN, dep |-> Num(0)],
       [pct |-> PctNum(150, 0), dep |-> NA] >>

\* the cells in file order: neither the entities nor the years come sorted
FlowCells == << <<2, 4>>, <<1, 5>>, <<2, 0>>, <<1, 0>>, <<2, 5>>, <<1, 4>> >>

\* the rows of the table that holds option pick[i] in cell cells[i]
TableRows(cells, pick) ==
    LET used == SelectSeq([i \in DOMAIN cells |-> i], LAMBDA i : pick[i] # 0)
    IN [k \in DOMAIN used |->
           LET i == used[k]
           IN [REGN |-> cells[i][1], DT |-> <<cells[i][2], 12>>,
               state_equity_pct |-> CellOptions[pick[i]].pct,
               total_deposits |-> CellOptions[pick[i]].dep]]

AllColumns == Range(REQUIRED_COLS)

GoodFile(rows) == [decodes |-> TRUE, columns |-> AllColumns, rows |-> rows]

\* every table of at most maxRows rows over the flow cells, at least one row
FlowFiles(maxRows) ==
    {GoodFile(TableRows(FlowCells, pick)) :
        pick \in {q \in [DOMAIN FlowCells -> 0..Len(CellOptions)] :
                     LET n == Cardinality({i \in DOMAIN FlowCells : q[i] # 0})
                     IN n >= 1 /\ n <= maxRows}}

\* a table that yields a graph when it is whole
SampleRows == TableRows(FlowCells, <<1, 0, 1, 2, 0, 0>>)

\* files that do not decode, or lack some of the required columns
BrokenFiles ==
    {[decodes |-> FALSE, columns |-> AllColumns, rows |-> SampleRows]}
    \cup {[decodes |-> TRUE, columns |-> cs, rows |-> SampleRows] :
             cs \in (SUBSET AllColumns) \ {AllColumns}}

\* one or two entities over two chosen years of 0..MaxYear
GridFiles ==
    UNION {{GoodFile(TableRows(<< <<1, y1>>, <<2, y2>>, <<1, y2>> >>, pick)) :
               pick \in {<<1, 2, 0>>, <<1, 0, IF y1 = y2 THEN 0 ELSE 2>>}} :
           y1 \in 0..MaxYear, y2 \in 0..MaxYear}

NoFile == [decodes |-> FALSE, columns |-> {}, rows |-> <<>>]

InitCall(name, a) ==
    /\ fn = name /\ arg = a /\ ret = <<>>
    /\ file = NoFile /\ pc = "call" /\ chartData = NULL /\ isLoading = FALSE
    /\ error = NULL /\ calls = 0 /\ proc = Failure("", "")
    /\ thicknessMode = "abs" /\ layoutMode = "fixed" /\ nodeX = <<>> /\ nodeY = <<>>
    /\ plot = NoPlot

\* App after its first render, the user holding file f
InitApp(f) ==
    /\ fn = "" /\ arg = <<>> /\ ret = <<>>
    /\ file = f /\ pc = "idle" /\ chartData = NULL /\ isLoading = FALSE
    /\ error = NULL /\ calls = 0 /\ proc = Failure("", "")
    /\ thicknessMode = "abs" /\ layoutMode = "fixed" /\ nodeX = <<>> /\ nodeY = <<>>
    /\ plot = NoPlot

AppNext ==
    \/ UploadNoFile
    \/ Upload
    \/ BufferRejected
    \/ BufferResolved
    \/ ProcessResolved
    \/ ProcessRejected

\* the pipeline behind App, over the flow tables and the broken files
Init == \E f \in FlowFiles(MaxRows) \cup BrokenFiles : InitApp(f)
Next == AppNext
Spec == Init /\ [][Next]_vars

\* getBucket alone
InitBucket == \E p \in BucketInputs : InitCall("getBucket", <<p>>)
NextBucket == CallGetBucket
SpecBucket == InitBucket /\ [][NextBucket]_vars

\* buildYearGrid alone, and behind App
InitGrid ==
    \/ \E lo \in 0..MaxYear, hi \in 0..MaxYear :
           lo <= hi /\ InitCall("buildYearGrid", <<lo, hi, STEP_YEARS>>)
    \/ \E f \in GridFiles : InitApp(f)
NextGrid == CallBuildYearGrid \/ AppNext
SpecGrid == InitGrid /\ [][NextGrid]_vars

\* the events a user can cause on the plot: a drag moves one of the first
\* MaxDragNodes nodes, vertically to 1/4 or 3/4 and possibly horizontally
DragEvents ==
    {[hasY |-> h, x |-> [nodeX EXCEPT ![k] = nodeX[k] + dx], y |-> [nodeY EXCEPT ![k] = t]] :
        h \in BOOLEAN, k \in 1..MaxDragNodes, dx \in {0, 7}, t \in {<<1, 4>>, <<3, 4>>}}

ChartNext ==
    \/ \E mode \in {"abs", "share"} : SetThicknessMode(mode)
    \/ \E mode \in {"fixed", "freeform"} : SetLayoutMode(mode)
    \/ \E eventData \in DragEvents : Restyle(eventData)
    \/ resetPositions

\* App and the chart it mounts
InitUI == \E f \in FlowFiles(MaxUIRows) \cup BrokenFiles : InitApp(f)
NextUI == AppNext \/ ChartNext
SpecUI == InitUI /\ [][NextUI]_vars

-----------------------------------------------------------------------------
(* Properties of the flows *)

\* the pipeline has run in this state
Ran == pc \in {"processParquetData", "done"} /\ calls > 0

\* the pipeline has run and got as far as the flows
FlowsBuilt == Ran /\ Len(proc.YEARS) >= 2

Steps == 1..(Len(proc.YEARS) - 1)
SnapAt(y) == {r \in Range(proc.mergedSnap) : r.year = y}
WeightOf == [r \in Range(proc.mergedSnap) |-> IF IsNa(r.w_t) THEN 0 ELSE Val(r.w_t)]

\* the y0 snapshots with a defined weight
Weighted(y0) == {r \in SnapAt(y0) : ~IsNa(r.w_t)}

\* the edge a y0 snapshot r belongs to by the rule of the flow stage: active to
\* its bucket at y1 when the entity has a y1 snapshot, else the exit of y0
EdgeKeyOf(r, y1) ==
    LET next == {q \in SnapAt(y1) : q.REGN = r.REGN}
    IN IF next # {}
       THEN [cat_from |-> r.bucket, cat_to |-> (CHOOSE q \in next : TRUE).bucket,
             flow_type |-> "active"]
       ELSE [cat_from |-> r.bucket, cat_to |-> EXIT_LABEL, flow_type |-> "exit"]

KeyOfEdge(e) == [cat_from |-> e.cat_from, cat_to |-> e.cat_to, flow_type |-> e.flow_type]

EdgesFrom(y0) == {k \in DOMAIN proc.linkRows : proc.linkRows[k].level_from = y0}
EdgeWeight == [k \in DOMAIN proc.linkRows |-> proc.linkRows[k].weight]

\* C1: in every step (y0, y1) each y0 snapshot with a defined weight lies in
\* exactly one edge leaving y0, the active edge to its y1 bucket or the exit edge
\* of its bucket; every edge weighs what its members weigh, and the edges
\* leaving y0 weigh together what the weighted y0 snapshots weigh.
C1_StepConservesWeight ==
    FlowsBuilt =>
        \A i \in Steps :
            LET y0 == proc.YEARS[i]
                y1 == proc.YEARS[i + 1]
            IN /\ \A r \in Weighted(y0) :
                      Cardinality({k \in EdgesFrom(y0) :
                          KeyOfEdge(proc.linkRows[k]) = EdgeKeyOf(r, y1)}) = 1
               /\ \A k \in EdgesFrom(y0) :
                      proc.linkRows[k].weight =
                          SumOver({r \in Weighted(y0) :
                                      EdgeKeyOf(r, y1) = KeyOfEdge(proc.linkRows[k])},
                                  WeightOf)
               /\ SumOver(EdgesFrom(y0), EdgeWeight) = SumOver(Weighted(y0), WeightOf)

\* a step with an active edge and an exit edge, both of positive weight, in a
\* run where some snapshot of a step's first year has no weight
C1_Witness ==
    /\ pc = "done" /\ proc.ok
    /\ \E i \in Steps :
          /\ \E k \in EdgesFrom(proc.YEARS[i]) :
                proc.linkRows[k].flow_type = "active" /\ proc.linkRows[k].weight > 0
          /\ \E k \in EdgesFrom(proc.YEARS[i]) :
                proc.linkRows[k].flow_type = "exit" /\ proc.linkRows[k].weight > 0
    /\ \E j \in Steps : \E r \in SnapAt(proc.YEARS[j]) : IsNa(r.w_t)

\* C2: an exit edge is recorded in its exit year, to Exit; an active edge joins
\* two consecutive grid years and never ends in Exit; no edge leaves Exit.
C2_EdgeShape ==
    FlowsBuilt =>
        \A k \in DOMAIN proc.linkRows :
            LET e == proc.linkRows[k]
            IN /\ e.flow_type \in {"active", "exit"}
               /\ e.cat_from # EXIT_LABEL
               /\ \E i \in Steps :
                     /\ e.level_from = proc.YEARS[i]
                     /\ e.flow_type = "active" =>
                            e.level_to = proc.YEARS[i + 1] /\ e.cat_to # EXIT_LABEL
               /\ e.flow_type = "exit" =>
                      e.level_to = e.level_from /\ e.cat_to = EXIT_LABEL

\* a run of two steps with an exit edge in its first step and an active edge
C2_Witness ==
    /\ pc = "done" /\ proc.ok /\ Len(proc.YEARS) = 3
    /\ \E k \in DOMAIN proc.linkRows :
          proc.linkRows[k].flow_type = "exit" /\ proc.linkRows[k].level_from = proc.YEARS[1]
    /\ \E k \in DOMAIN proc.linkRows : proc.linkRows[k].flow_type = "active"

\* the node keys some returned edge has as its source or its target
Touched ==
    {<<proc.linkRows[k].level_from, proc.linkRows[k].cat_from>> : k \in DOMAIN proc.linkRows}
    \cup {<<proc.linkRows[k].level_to, proc.linkRows[k].cat_to>> : k \in DOMAIN proc.linkRows}

\* C3: the returned nodes are exactly the keys an edge touches, and the
\* colours and coordinates have one entry per such node.
C3_OnlyTouchedNodes ==
    (pc = "done" /\ proc.ok) =>
        /\ Range(proc.data.nodes) = Touched
        /\ Len(proc.data.node_colors) = Cardinality(Touched)
        /\ Len(proc.data.xs) = Cardinality(Touched)
        /\ Len(proc.data.ys) = Cardinality(Touched)

-----------------------------------------------------------------------------
(* Properties of the shares *)

\* the (year_from, year_to) groups of the returned edges
Groups == {<<proc.linkRows[k].level_from, proc.linkRows[k].level_to>> :
              k \in DOMAIN proc.linkRows}
InGroup(g) == {k \in DOMAIN proc.linkRows :
                  <<proc.linkRows[k].level_from, proc.linkRows[k].level_to>> = g}
GroupTotal(g) == SumOver(InGroup(g), EdgeWeight)

\* the numerators of the shares of a group whose shares have denominator den
ShareNum == [k \in DOMAIN proc.data.links |-> proc.data.links[k].value_share[1]]

\* the share of link k is the fraction 100 * weight / total
IsShareOf(k, total) ==
    proc.data.links[k].value_share = <<100 * proc.linkRows[k].weight, total>>

IsZero(k) == proc.data.links[k].value_share[1] = 0

\* the shares of group g sum to 100
SumTo100(g) ==
    /\ \A k \in InGroup(g) : proc.data.links[k].value_share[2] = GroupTotal(g)
    /\ SumOver(InGroup(g), ShareNum) = 100 * GroupTotal(g)

\* C5 as stated: every share is 100 * weight / group total, the shares of a
\* group of positive total sum to 100, and below 1e-9 every share is 0.
C5_SharesSumWhenPositive ==
    (pc = "done" /\ proc.ok) =>
        \A g \in Groups :
            /\ GroupTotal(g) > 0 =>
                   SumTo100(g) /\ \A k \in InGroup(g) : IsShareOf(k, GroupTotal(g))
            /\ GroupTotal(g) < EPS9 => \A k \in InGroup(g) : IsZero(k)

\* C5 amended: the shares are 100 * weight / group total and sum to 100 when
\* the group total exceeds 1e-9; at or below 1e-9 every share is 0.  The group
\* of an exit edge holds exit edges alone.
C5_SharesSumAboveEps ==
    (pc = "done" /\ proc.ok) =>
        \A g \in Groups :
            /\ GroupTotal(g) > EPS9 =>
                   SumTo100(g) /\ \A k \in InGroup(g) : IsShareOf(k, GroupTotal(g))
            /\ GroupTotal(g) <= EPS9 => \A k \in InGroup(g) : IsZero(k)
            /\ \A k, l \in InGroup(g) :
                   proc.linkRows[k].flow_type = proc.linkRows[l].flow_type

\* a run with an active group of two edges whose total is above the threshold
\* and an exit group whose total is positive and below it
C5_Witness ==
    /\ pc = "done" /\ proc.ok
    /\ \E g \in Groups, h \in Groups :
          /\ g[2] # g[1] /\ h[2] = h[1]
          /\ Cardinality(InGroup(g)) >= 2
          /\ GroupTotal(g) > EPS9
          /\ GroupTotal(h) > 0 /\ GroupTotal(h) < EPS9

-----------------------------------------------------------------------------
(* Properties of getBucket *)

Returned(name) == fn = name /\ ret # <<>>

\* p < c/10 + d * 5e-13 and its negation
Under(p, c, d) == PctLt(p, PctNum(c, d))
From(p, c, d) == ~PctLt(p, PctNum(c, d))

\* the label of a number by ranges closed below and open above
ByExactRanges(p) ==
    IF From(p, 0, 1 - EPS12) /\ Under(p, 0, EPS12) THEN {"State 0%"}
    ELSE IF From(p, 1001, 0) THEN {"State >=50%", UNKNOWN_LABEL}
    ELSE IF From(p, 500, 0) THEN {"State >=50%"}
    ELSE IF From(p, 200, 0) THEN {"State 20-50%"}
    ELSE IF From(p, 100, 0) THEN {"State 10-20%"}
    ELSE IF From(p, 0, 1) THEN {"State 0-10%"}
    ELSE {UNKNOWN_LABEL}

\* the label of a number by ranges shifted down by the tolerance 1e-12
ByTolerantRanges(p) ==
    IF From(p, 0, 1 - EPS12) /\ Under(p, 0, EPS12) THEN "State 0%"
    ELSE IF From(p, 1001, EPS12) THEN UNKNOWN_LABEL
    ELSE IF From(p, 500, 1 - EPS12) THEN "State >=50%"
    ELSE IF From(p, 200, 1 - EPS12) THEN "State 20-50%"
    ELSE IF From(p, 100, 1 - EPS12) THEN "State 10-20%"
    ELSE IF From(p, 0, EPS12) THEN "State 0-10%"
    ELSE UNKNOWN_LABEL

\* C4 as stated: getBucket never returns Exit; a number within 1e-12 of 0 is
\* in the zero bucket; otherwise [50, ...) is ">=50%", [20, 50) "20-50%",
\* [10, 20) "10-20%", (0, 10) "0-10%", each lower edge inclusive and each upper
\* edge exclusive; anything else is Unknown.
C4_ExactEdges ==
    Returned("getBucket") =>
        /\ ret[1] # EXIT_LABEL
        /\ ret[1] \in (IF arg[1].kind = "num" THEN ByExactRanges(arg[1])
                       ELSE {UNKNOWN_LABEL})

\* C4 amended: getBucket never returns Exit; a number within 1e-12 of 0 is in
\* the zero bucket; otherwise a number v is ">=50%" when
\* 50 - 1e-12 < v < 100.1 + 1e-12, "20-50%" when 20 - 1e-12 < v <= 50 - 1e-12,
\* "10-20%" when 10 - 1e-12 < v <= 20 - 1e-12, "0-10%" when
\* 1e-12 <= v <= 10 - 1e-12; anything else is Unknown.
C4_TolerantEdges ==
    Returned("getBucket") =>
        /\ ret[1] # EXIT_LABEL
        /\ ret[1] = (IF arg[1].kind = "num" THEN ByTolerantRanges(arg[1])
                     ELSE UNKNOWN_LABEL)

\* exactly 50.0 is labelled ">=50%"
C4_Witness ==
    Returned("getBucket") /\ arg[1] = PctNum(500, 0) /\ ret[1] = "State >=50%"

-----------------------------------------------------------------------------
(* Properties of buildYearGrid *)

\* years is the grid from lo to hi: it starts at lo, ends at hi, steps by
\* STEP_YEARS but for a last step of 1..STEP_YEARS
IsGrid(years, lo, hi) ==
    /\ Len(years) >= 1
    /\ years[1] = lo
    /\ years[Len(years)] = hi
    /\ \A i \in 1..(Len(years) - 1) :
          IF i < Len(years) - 1
          THEN years[i + 1] - years[i] = STEP_YEARS
          ELSE years[i + 1] - years[i] \in 1..STEP_YEARS
    /\ Cardinality({i \in DOMAIN years : years[i] = hi}) = 1

SnapYears == {proc.mergedSnap[i].year : i \in DOMAIN proc.mergedSnap}

\* C6: for min_year <= max_year the grid is strictly increasing from min_year
\* to max_year, every step is 4 but the last, which is 1 to 4, and max_year
\* occurs once; a run whose snapshots lie in a single year has a grid of one
\* year and fails for want of annual steps.
C6_GridShape ==
    /\ Returned("buildYearGrid") => IsGrid(ret[1], arg[1], arg[2])
    /\ (Ran /\ proc.mergedSnap # <<>>) =>
           /\ \E lo \in SnapYears, hi \in SnapYears :
                 /\ \A y \in SnapYears : lo <= y /\ y <= hi
                 /\ IsGrid(proc.YEARS, lo, hi)
           /\ Cardinality(SnapYears) = 1 =>
                  /\ Len(proc.YEARS) = 1
                  /\ ~proc.ok
                  /\ proc.error.message = ERR_STEPS
                  /\ pc = "done" => chartData = NULL /\ error # NULL

\* a grid whose last step is short
C6_Witness ==
    Returned("buildYearGrid") /\ arg = <<0, 9, STEP_YEARS>> /\ ret[1] = <<0, 4, 8, 9>>

-----------------------------------------------------------------------------
(* Properties of the failures *)

Absent == {i \in DOMAIN REQUIRED_COLS : REQUIRED_COLS[i] \notin file.columns}

\* C7: a run on a table that lacks a required column fails before any stage,
\* naming the first such column; a run fails on a grid of fewer than 2 years
\* and on no edges; a failed run returns no graph, the pipeline is called at
\* most once, and App ends with no chart, the error and isLoading false.
C7_NoPartialGraph ==
    /\ calls <= 1
    /\ Ran =>
          /\ (file.decodes /\ Absent # {}) =>
                 /\ ~proc.ok
                 /\ proc.error.message = ERR_COLUMN
                 /\ \E i \in Absent :
                       /\ \A j \in Absent : i <= j
                       /\ proc.error.column = REQUIRED_COLS[i]
                 /\ proc.mergedSnap = <<>>
          /\ proc.ok => Len(proc.YEARS) >= 2 /\ Len(proc.linkRows) >= 1
          /\ ~proc.ok => proc.data = EmptyData
          /\ (pc = "done" /\ ~proc.ok) =>
                 /\ chartData = NULL
                 /\ error = Some(Failed(proc.error))
                 /\ ~isLoading

\* App after a run on a table without its volume column
C7_Witness ==
    /\ pc = "done" /\ calls = 1 /\ ~proc.ok
    /\ file.decodes /\ "total_deposits" \notin file.columns
    /\ error # NULL /\ error[1].column = "total_deposits"

-----------------------------------------------------------------------------
(* Properties of SankeyChart *)

\* a step of restyleListener
Dragged == \E eventData \in DragEvents : Restyle(eventData)

\* C9: whatever the user did, the nodeX of the chart and of the plot are the
\* xs of the pipeline; a drag in freeform mode leaves nodeX at the computed
\* positions and a drag in fixed mode changes neither nodeX nor nodeY.
C9_NodeXIsComputed ==
    /\ [](ChartRendered => nodeX = Data.xs /\ plot.x = Data.xs)
    /\ [][(ChartRendered /\ Dragged) =>
             /\ nodeX' = Data.xs
             /\ layoutMode = "fixed" => nodeX' = nodeX /\ nodeY' = nodeY]_vars

\* a node was dragged in freeform mode and stands where it was put
C9_Witness ==
    /\ ChartRendered /\ layoutMode = "freeform"
    /\ nodeY # Data.ys /\ plot.y = nodeY
    /\ nodeX = Data.xs

\* the values of the plot are those of the links in the chosen mode
ValuesSelected ==
    /\ DOMAIN plot.value = DOMAIN Data.links
    /\ \A i \in DOMAIN Data.links :
          plot.value[i] = IF thicknessMode = "abs" THEN Data.links[i].value_abs
                          ELSE Data.links[i].value_share

\* C10: once the chart is shown no step calls the pipeline or changes
\* chartData; a change of the thickness mode leaves nodeX, nodeY and layoutMode
\* as they were, and the plot shows value_abs or value_share of the links.
C10_NoRecomputation ==
    /\ [](ChartRendered => ValuesSelected)
    /\ [][ChartRendered =>
             /\ calls' = calls /\ chartData' = chartData /\ proc' = proc
             /\ thicknessMode' # thicknessMode =>
                    nodeX' = nodeX /\ nodeY' = nodeY /\ layoutMode' = layoutMode]_vars

\* the share mode was chosen after a drag, and the dragged node stayed
C10_Witness ==
    /\ ChartRendered /\ thicknessMode = "share" /\ layoutMode = "freeform"
    /\ nodeY # Data.ys
    /\ plot.value # PlotValues(Data, "abs")

-----------------------------------------------------------------------------
(* yearEndSnapshotFfill alone *)

CallYearEndSnapshotFfill ==
    /\ fn = "yearEndSnapshotFfill"
    /\ ret = <<>>
    /\ ret' = <<yearEndSnapshotFfill(arg[1], arg[2])>>
    /\ UNCHANGED <<fn, arg, appVars, chartVars>>

MaxSnapRows == 4    \* rows of a table of the snapshot specification

\* the (REGN, <<year, month>>) keys in file order: three months of year 0 and
\* one of year 1 for entity 1, one month for entity 2, none of them sorted
SnapCells == << <<1, <<0, 12>>>>, <<2, <<0, 6>>>>, <<1, <<0, 1>>>>,
                <<1, <<1, 1>>>>, <<1, <<0, 6>>>> >>

\* what a cell may hold: no row (0), or a row whose percentage and whose
\* volumes are present or missing; present values differ from cell to cell
SnapRow(i, option) ==
    [REGN |-> SnapCells[i][1], DT |-> SnapCells[i][2],
     state_equity_pct |-> IF option \in {1, 2} THEN PctNum(100 + 10 * i, 0) ELSE PctNaN,
     total_deposits |-> IF option \in {1, 3} THEN Num(10 * i) ELSE NA,
     indicator_ma |-> IF option \in {1, 3} THEN Num(10 * i + 1) ELSE NA]

SnapTables ==
    {LET used == SelectSeq([i \in DOMAIN SnapCells |-> i], LAMBDA i : pick[i] # 0)
     IN [k \in DOMAIN used |-> SnapRow(used[k], pick[used[k]])] :
        pick \in {q \in [DOMAIN SnapCells -> 0..4] :
                     LET n == Cardinality({i \in DOMAIN SnapCells : q[i] # 0})
                     IN n >= 1 /\ n <= MaxSnapRows}}

\* the two column lists processParquetData asks for
SnapCols == {<<"state_equity_pct", "indicator_ma">>, <<INDICATOR_COL>>}

InitSnap ==
    \E t \in SnapTables, cols \in SnapCols : InitCall("yearEndSnapshotFfill", <<t, cols>>)
NextSnap == CallYearEndSnapshotFfill
SpecSnap == InitSnap /\ [][NextSnap]_vars

\* the rows of table t of entity regn in year y
GroupOf(t, regn, y) == {i \in DOMAIN t : t[i].REGN = regn /\ t[i].DT[1] = y}

\* the rows of a group that hold column c, up to month m
Holding(t, g, c, m) == {i \in g : ~IsMissing(c, t[i][c]) /\ t[i].DT[2] <= m}

\* row s is the snapshot of its (REGN, year) group of table t: it has the DT of
\* the group's last row and, in each column, the value of the latest row of the
\* group that holds one, or a missing value when none does
IsSnapshotOf(s, t, cols) ==
    LET g == GroupOf(t, s.REGN, s.year)
        last == CHOOSE i \in g : \A j \in g : t[j].DT[2] <= t[i].DT[2]
    IN /\ g # {}
       /\ DOMAIN s = {"REGN", "DT", "year"} \cup Range(cols)
       /\ s.DT = t[last].DT
       /\ \A k \in DOMAIN cols :
             LET c == cols[k]
                 h == Holding(t, g, c, t[last].DT[2])
             IN IF h = {} THEN IsMissing(c, s[c])
                ELSE s[c] = t[CHOOSE i \in h : \A j \in h : t[j].DT[2] <= t[i].DT[2]][c]

\* C11: yearEndSnapshotFfill returns one row for every (entity, year) of its
\* input and no other; the row is the last of its group in time, each column
\* holding the latest value of that entity in that year, and a missing value
\* when the group holds none: nothing comes from another year or entity.
C11_SnapshotIsLastFilled ==
    Returned("yearEndSnapshotFfill") =>
        LET t == arg[1]
            s == ret[1]
        IN /\ {<<s[k].REGN, s[k].year>> : k \in DOMAIN s}
                  = {<<t[i].REGN, t[i].DT[1]>> : i \in DOMAIN t}
           /\ \A k, l \in DOMAIN s :
                 (s[k].REGN = s[l].REGN /\ s[k].year = s[l].year) => k = l
           /\ \A k \in DOMAIN s : IsSnapshotOf(s[k], t, arg[2])

\* entity 1 has its percentage in January of year 0 alone: the snapshot of year
\* 0 has the January value at the December date, that of year 1 has none
C11_Witness ==
    /\ Returned("yearEndSnapshotFfill")
    /\ arg[2] = <<"state_equity_pct", "indicator_ma">>
    /\ \E k, l \in DOMAIN ret[1] :
          /\ ret[1][k].REGN = 1 /\ ret[1][k].DT = <<0, 12>>
          /\ ret[1][k].state_equity_pct = PctNum(130, 0)
          /\ ret[1][l].REGN = 1 /\ ret[1][l].year = 1
          /\ ret[1][l].state_equity_pct = PctNaN

-----------------------------------------------------------------------------
(* The smoothed volume alone: stage 2 up to DF.addColumn('indicator_ma') *)

CallWithIndicatorMa ==
    /\ fn = "indicator_ma"
    /\ ret = <<>>
    /\ ret' = <<WithIndicatorMa(arg[1])>>
    /\ UNCHANGED <<fn, arg, appVars, chartVars>>

MaxSeries == 14     \* monthly rows of entity 1 in the smoothing specification
MaxMissing == 2     \* missing volumes of a series that is mostly present
MaxPresent == 2     \* present volumes of a series that is mostly missing

\* the i-th month from January of year 0
MonthOf(i) == <<(i - 1) \div 12, ((i - 1) % 12) + 1>>

\* entity 1: n monthly rows, latest first, the volume of month i being 100 * i
\* unless i is in missing
SeriesRows(n, missing) ==
    [k \in 1..n |->
        [REGN |-> 1, DT |-> MonthOf(n + 1 - k),
         state_equity_pct |-> PctNum(500, 0),
         total_deposits |-> IF (n + 1 - k) \in missing THEN NA ELSE Num(100 * (n + 1 - k))]]

\* entity 0 with five months of large volumes; it sorts before entity 1
OtherRows ==
    [k \in 1..5 |->
        [REGN |-> 0, DT |-> MonthOf(k),
         state_equity_pct |-> PctNum(0, 0),
         total_deposits |-> Num(100000 + k)]]

SeriesTables ==
    UNION {{SeriesRows(n, missing) \o other :
               missing \in {m \in SUBSET (1..n) :
                               \/ Cardinality(m) <= MaxMissing
                               \/ n - Cardinality(m) <= MaxPresent},
               other \in {<<>>, OtherRows}} :
           n \in 1..MaxSeries}

InitMa == \E t \in SeriesTables : InitCall("indicator_ma", <<t>>)
NextMa == CallWithIndicatorMa
SpecMa == InitMa /\ [][NextMa]_vars

\* a is not later than b
DtLe(a, b) == a[1] < b[1] \/ (a[1] = b[1] /\ a[2] <= b[2])

\* the rows of r of the entity of row k that are not later than it
UpTo(r, k) == {j \in DOMAIN r : r[j].REGN = r[k].REGN /\ DtLe(r[j].DT, r[k].DT)}

\* row k and the up to MA_MONTHS - 1 rows of its entity before it
WindowOf(r, k) ==
    {j \in UpTo(r, k) :
        Cardinality({i \in UpTo(r, k) : ~DtLe(r[i].DT, r[j].DT)}) < MA_MONTHS}

PresentIn(r, k) == {j \in WindowOf(r, k) : ~IsNa(r[j].total_deposits)}

VolumeOf(r) ==
    [j \in DOMAIN r |-> IF IsNa(r[j].total_deposits) THEN 0 ELSE Val(r[j].total_deposits)]

\* v is the mean of the numbers f over S, to the unit
IsMeanOver(v, S, f) ==
    /\ v * Cardinality(S) <= SumOver(S, f)
    /\ SumOver(S, f) < (v + 1) * Cardinality(S)

WithoutMa(row) ==
    [REGN |-> row.REGN, DT |-> row.DT, state_equity_pct |-> row.state_equity_pct,
     total_deposits |-> row.total_deposits]

\* C12: the table comes back sorted by (entity, timestamp), and the smoothed
\* volume of each row is the mean of the present volumes among that row and the
\* up to 11 rows of the same entity before it, undefined when fewer than 4 of
\* them are present; no volume of another entity enters the mean.
C12_SmoothedIsWindowMean ==
    Returned("indicator_ma") =>
        LET t == arg[1]
            r == ret[1]
        IN /\ Len(r) = Len(t)
           /\ {WithoutMa(r[k]) : k \in DOMAIN r} = Range(t)
           /\ \A k \in 1..(Len(r) - 1) : RowLt(r[k], r[k + 1])
           /\ \A k \in DOMAIN r :
                 IF Cardinality(PresentIn(r, k)) < 4
                 THEN IsNa(r[k].indicator_ma)
                 ELSE /\ ~IsNa(r[k].indicator_ma)
                      /\ IsMeanOver(Val(r[k].indicator_ma), PresentIn(r, k), VolumeOf(r))

\* thirteen months of entity 1, all present, beside entity 0: the mean of the
\* thirteenth row is that of months 2 to 13, and the third row has none
C12_Witness ==
    /\ Returned("indicator_ma")
    /\ \E k, l, o \in DOMAIN ret[1] :
          /\ ret[1][k].REGN = 1 /\ ret[1][k].DT = <<1, 1>>
          /\ ret[1][k].indicator_ma = Num(750)
          /\ ret[1][l].REGN = 1 /\ ret[1][l].DT = <<0, 3>>
          /\ ~IsNa(ret[1][l].total_deposits) /\ IsNa(ret[1][l].indicator_ma)
          /\ ret[1][o].REGN = 0

-----------------------------------------------------------------------------
(* The global clip alone: CLIP_ENABLED block and the bucket column *)

CallWeightedOfMerged ==
    /\ fn = "clip"
    /\ ret = <<>>
    /\ ret' = <<WeightedOfMerged(arg[1])>>
    /\ UNCHANGED <<fn, arg, appVars, chartVars>>

MaxWeights == 4     \* rows of a short table of the clip specification
MaxFiller == 49     \* equal weights in the middle of a long table

\* the merged table whose column w_t is ws, one entity per row
MergedOfWeights(ws) ==
    [i \in DOMAIN ws |->
        [REGN |-> i, DT |-> <<0, 12>>, year |-> 0,
         state_equity_pct |-> PctNum(0, 0),
         indicator_raw |-> ws[i], indicator_ma |-> ws[i],
         w_t |-> ws[i], w_raw |-> ws[i]]]

ShortWeights ==
    UNION {[1..n -> {NA, Num(0), Num(3), Num(5), Num(9)}] : n \in 1..MaxWeights}

\* tables long enough for the lower rank to leave the minimum: MaxFiller
\* weights of 50 between three weights that may lie outside them
LongWeights ==
    {<<b, c>> \o [i \in 1..MaxFiller |-> Num(50)] \o <<a>> :
        a \in {NA, Num(10), Num(50)}, b \in {NA, Num(50), Num(90)},
        c \in {Num(20), Num(60)}}

InitClip ==
    \E ws \in ShortWeights \cup LongWeights : InitCall("clip", <<MergedOfWeights(ws)>>)
NextClip == CallWeightedOfMerged
SpecClip == InitClip /\ [][NextClip]_vars

\* the rows of table m that hold a weight
HasWeight(m) == {i \in DOMAIN m : ~IsNa(m[i].w_t)}

\* the weight of 0-based rank k among the weights of m in ascending order
AtRank(m, k) ==
    Val(m[CHOOSE i \in HasWeight(m) :
              /\ Cardinality({j \in HasWeight(m) : Val(m[j].w_t) < Val(m[i].w_t)}) <= k
              /\ k < Cardinality({j \in HasWeight(m) : Val(m[j].w_t) <= Val(m[i].w_t)})].w_t)

Lower(m) == AtRank(m, (2 * (Cardinality(HasWeight(m)) - 1)) \div 100)
Upper(m) == AtRank(m, (98 * (Cardinality(HasWeight(m)) - 1)) \div 100)

\* the clip is applied to table m
Applies(m) == HasWeight(m) # {} /\ Upper(m) > Lower(m)

\* C13: the bounds are the weights of rank floor(0.02 (n - 1)) and
\* floor(0.98 (n - 1)); when upper > lower every weight below lower becomes
\* lower, every weight above upper becomes upper and the others stay, else
\* nothing changes; a missing weight stays missing; and clipping the result
\* again with the same bounds changes nothing.
C13_ClipIdempotent ==
    Returned("clip") =>
        LET m == arg[1]
            out == ret[1]
        IN /\ DOMAIN out = DOMAIN m
           /\ \A i \in DOMAIN m :
                 IF IsNa(m[i].w_t) THEN IsNa(out[i].w_t)
                 ELSE IF ~Applies(m) THEN out[i].w_t = m[i].w_t
                 ELSE /\ ~IsNa(out[i].w_t)
                      /\ Lower(m) <= Val(out[i].w_t) /\ Val(out[i].w_t) <= Upper(m)
                      /\ Val(m[i].w_t) < Lower(m) => Val(out[i].w_t) = Lower(m)
                      /\ Val(m[i].w_t) > Upper(m) => Val(out[i].w_t) = Upper(m)
                      /\ (Lower(m) <= Val(m[i].w_t) /\ Val(m[i].w_t) <= Upper(m)) =>
                             out[i].w_t = m[i].w_t
           /\ Applies(m) =>
                  \A i \in DOMAIN out : Clip(out[i].w_t, Lower(m), Upper(m)) = out[i].w_t

\* a table where the clip raised one weight to the lower bound and cut another
\* down to the upper bound
C13_Witness ==
    /\ Returned("clip")
    /\ \E i, j \in HasWeight(arg[1]) :
          /\ Val(arg[1][i].w_t) < Val(ret[1][i].w_t)
          /\ Val(arg[1][j].w_t) > Val(ret[1][j].w_t)

-----------------------------------------------------------------------------
(* The weights alone: stage 2 up to the columns w_t and w_raw *)

CallMergedSnap ==
    /\ fn = "w_t"
    /\ ret = <<>>
    /\ ret' = <<MergedSnap(arg[1])>>
    /\ UNCHANGED <<fn, arg, appVars, chartVars>>

MaxMonths == 5      \* monthly rows of the entity of the weight specification

\* the k-th row: three months of year 0, then the months of year 1
WeightRow(k, volume) ==
    [REGN |-> 1, DT |-> IF k <= 3 THEN <<0, k>> ELSE <<1, k - 3>>,
     state_equity_pct |-> PctNum(500, 0),
     total_deposits |-> volume]

WeightTables ==
    UNION {{[k \in 1..n |-> WeightRow(k, vol[k])] :
               vol \in [1..n -> {NA, Num(-200000), Num(64000), Num(200000)}]} :
           n \in 1..MaxMonths}

InitWeights == \E t \in WeightTables : InitCall("w_t", <<t>>)
NextWeights == CallMergedSnap
SpecWeights == InitWeights /\ [][NextWeights]_vars

\* the cell of column c of the snapshot of (regn, y) in snapshot table snap
SnapCell(snap, regn, y, c) ==
    snap[CHOOSE i \in DOMAIN snap : snap[i].REGN = regn /\ snap[i].year = y][c]

\* the smoothed volume of the snapshot, or its raw volume when that is missing
Smoothed(t, regn, y) ==
    SnapCell(yearEndSnapshotFfill(WithIndicatorMa(t),
                                  <<"state_equity_pct", "indicator_ma">>),
             regn, y, "indicator_ma")
RawVolume(t, regn, y) ==
    SnapCell(yearEndSnapshotFfill(WithIndicatorMa(t), <<INDICATOR_COL>>),
             regn, y, INDICATOR_COL)

\* C14: the merged value v of a snapshot is its smoothed volume, or its raw
\* volume when the smoothed one is missing; the weight is ln(|v| + 1), never
\* negative and the same for v and -v, the raw weight is max(v, 0), so a
\* negative v has raw weight 0 and a positive weight; a missing v has neither.
C14_SignDiscarded ==
    Returned("w_t") =>
        LET m == ret[1]
        IN /\ \A i \in DOMAIN m :
                 LET v == m[i].indicator_ma
                 IN /\ v = (IF IsNa(Smoothed(arg[1], m[i].REGN, m[i].year))
                            THEN RawVolume(arg[1], m[i].REGN, m[i].year)
                            ELSE Smoothed(arg[1], m[i].REGN, m[i].year))
                    /\ IF IsNa(v) THEN IsNa(m[i].w_t) /\ IsNa(m[i].w_raw)
                       ELSE /\ m[i].w_t = Num(Ln1p(IF Val(v) < 0 THEN -Val(v) ELSE Val(v)))
                            /\ Val(m[i].w_t) >= 0
                            /\ m[i].w_raw = Num(IF Val(v) > 0 THEN Val(v) ELSE 0)
                            /\ Val(v) < 0 => Val(m[i].w_raw) = 0 /\ Val(m[i].w_t) > 0
           /\ \A i, j \in DOMAIN m :
                 (~IsNa(m[i].indicator_ma) /\ ~IsNa(m[j].indicator_ma)
                  /\ Val(m[i].indicator_ma) = -Val(m[j].indicator_ma)) =>
                     m[i].w_t = m[j].w_t

\* year 0 has no smoothed volume and takes its raw volume, which is negative;
\* year 1 has a negative smoothed volume beside a positive raw one
C14_Witness ==
    /\ Returned("w_t")
    /\ \E i, j \in DOMAIN ret[1] :
          /\ ret[1][i].year = 0
          /\ ret[1][i].indicator_ma = Num(-200000)
          /\ ret[1][i].w_t = Num(199990) /\ ret[1][i].w_raw = Num(0)
          /\ ret[1][j].year = 1
          /\ ret[1][j].indicator_raw = Num(64000)
          /\ ret[1][j].indicator_ma = Num(-147200)
          /\ ret[1][j].w_t = Num(147195) /\ ret[1][j].w_raw = Num(0)

-----------------------------------------------------------------------------
(* Properties of the layout *)

\* the 0-based position of year y in the grid of the run
GridIndex(y) == (CHOOSE i \in DOMAIN proc.YEARS : proc.YEARS[i] = y) - 1

\* x of the column of position i, in 1e-6: 0.05 + i * 0.9 / (years - 1)
ColumnX(i) == 50000 + (i * 900000) \div (Len(proc.YEARS) - 1)

NodeIndices == DOMAIN proc.data.nodes
YearOfNode(n) == proc.data.nodes[n][1]
CatOfNode(n) == proc.data.nodes[n][2]

\* C15: a node that is not Exit stands at 0.05 + i * 0.9 / (years - 1), i
\* the position of its year in the grid; the Exit node of a year stands 1e-6
\* to the right of that, right of every node of its year and left of every
\* node of a later year.
C15_ColumnsLinear ==
    (Ran /\ proc.ok) =>
        /\ DOMAIN proc.data.xs = NodeIndices
        /\ \A n \in NodeIndices :
              proc.data.xs[n] = ColumnX(GridIndex(YearOfNode(n)))
                                + (IF CatOfNode(n) = EXIT_LABEL THEN 1 ELSE 0)
        /\ \A n \in NodeIndices :
              (CatOfNode(n) # EXIT_LABEL /\ GridIndex(YearOfNode(n)) = 0) =>
                  proc.data.xs[n] = 50000
        /\ \A n \in NodeIndices :
              (CatOfNode(n) # EXIT_LABEL
               /\ GridIndex(YearOfNode(n)) = Len(proc.YEARS) - 1) =>
                  proc.data.xs[n] = 950000
        /\ \A e \in NodeIndices, n \in NodeIndices :
              (CatOfNode(e) = EXIT_LABEL /\ CatOfNode(n) # EXIT_LABEL) =>
                  /\ YearOfNode(n) = YearOfNode(e) => proc.data.xs[e] > proc.data.xs[n]
                  /\ YearOfNode(n) > YearOfNode(e) => proc.data.xs[e] < proc.data.xs[n]
        /\ \A e \in NodeIndices, n \in NodeIndices :
              (CatOfNode(e) = EXIT_LABEL /\ CatOfNode(n) = EXIT_LABEL
               /\ YearOfNode(n) > YearOfNode(e)) => proc.data.xs[e] < proc.data.xs[n]

\* a run over a grid of four years: the columns stand at 0.05, 0.35, 0.65, 0.95
C15_Witness ==
    /\ pc = "done" /\ proc.ok /\ Len(proc.YEARS) = 4
    /\ \E n \in NodeIndices :
          CatOfNode(n) = EXIT_LABEL /\ proc.data.xs[n] = 350001

\* the weight of the edges of the run that leave or reach node n
Touching ==
    [n \in NodeIndices |->
        SumOver(DOMAIN proc.linkRows,
                [k \in DOMAIN proc.linkRows |->
                    (IF <<proc.linkRows[k].level_from, proc.linkRows[k].cat_from>>
                            = proc.data.nodes[n]
                     THEN proc.linkRows[k].weight ELSE 0)
                    + (IF <<proc.linkRows[k].level_to, proc.linkRows[k].cat_to>>
                             = proc.data.nodes[n]
                       THEN proc.linkRows[k].weight ELSE 0)])]

\* the place of the category of node n in the fixed order
OrderOf(n) == CHOOSE j \in DOMAIN CAT_ORDER : CAT_ORDER[j] = CatOfNode(n)

ColumnOf(n) == {m \in NodeIndices : YearOfNode(m) = YearOfNode(n)}
Before(n) == {m \in ColumnOf(n) : OrderOf(m) < OrderOf(n)}

\* node n of a column of total tot, with cum above it and w of its own, has
\* its span from 0.05 + 0.9 cum / tot, of height 0.9 w / tot, and its y is 1
\* minus the centre of the span: (38 tot - 18 (2 cum + w)) / (40 tot)
CentredInSpan(n, tot, cum, w) ==
    /\ proc.data.ys[n] = <<38 * tot - 18 * (2 * cum + w), 40 * tot>>
    /\ 2 * tot <= proc.data.ys[n][1] /\ proc.data.ys[n][1] <= 38 * tot
    /\ cum + w <= tot

\* node n is the i-th (from 0) of num nodes spread evenly over the band:
\* y = 1 - (0.05 + (i + 1/2) * 0.9 / num)
SpreadEvenly(n, num, i) ==
    proc.data.ys[n] = <<38 * num - 18 * (2 * i + 1), 40 * num>>

\* node n is placed by the weights touch, its column weighing tot
PlacedBy(touch, n, tot) ==
    IF tot > EPS9
    THEN /\ CentredInSpan(n, tot, SumOver(Before(n), touch), touch[n])
         /\ \A m \in Before(n) : proc.data.ys[m][1] >= proc.data.ys[n][1]
    ELSE SpreadEvenly(n, Cardinality(ColumnOf(n)), Cardinality(Before(n)))

\* every node of the column col, which weighs tot, is placed by touch
PlacedColumn(touch, col, tot) == \A n \in col : PlacedBy(touch, n, tot)

PlacedAll(touch) ==
    \A i \in DOMAIN proc.YEARS :
        PlacedColumn(touch, {n \in NodeIndices : YearOfNode(n) = proc.YEARS[i]},
                     SumOver({n \in NodeIndices : YearOfNode(n) = proc.YEARS[i]}, touch))

\* C16: in a column whose touching weight exceeds 1e-9 the nodes, in category
\* order, have consecutive spans of height 0.9 * weight / total from the top
\* margin 0.05, the heights adding up to 0.9, and y is 1 minus the centre of
\* the span, so y does not increase down the order and lies in [0.05, 0.95];
\* in a column of at most 1e-9 the nodes are spread evenly over the band.
C16_SpansByWeight ==
    (Ran /\ proc.ok) =>
        /\ DOMAIN proc.data.ys = NodeIndices
        /\ PlacedAll(Touching)

\* a run with a column shared by two nodes of weight above the threshold and
\* a column whose nodes no edge touches
C16_Witness ==
    /\ pc = "done" /\ proc.ok
    /\ Len(proc.YEARS) = 3
    /\ \E n, m, e \in NodeIndices :
          /\ m \in Before(n)
          /\ proc.data.ys[m][2] > 40 * EPS9 /\ proc.data.ys[n][2] = proc.data.ys[m][2]
          /\ proc.data.ys[m][1] > proc.data.ys[n][1]
          /\ proc.data.ys[n][1] > 2 * (proc.data.ys[n][2] \div 40)
          /\ OrderOf(e) = 1 /\ YearOfNode(e) = proc.YEARS[3]
          /\ SumOver(ColumnOf(e), Touching) = 0
          /\ proc.data.ys[e] = <<38 * 7 - 18, 40 * 7>>

-----------------------------------------------------------------------------
(* App: one upload per mounted App *)

\* a handleFileUpload is suspended at one of its awaits
InFlight == pc \in {"arrayBuffer", "processParquetData"}

\* an upload has finished with a chart or with an error
Finished == pc = "done"

\* C17: while a handleFileUpload is in flight isLoading is true and the file
\* input is not rendered, so no second run can start; once an upload has
\* finished, with a chart or an error, the input is never rendered again;
\* processParquetData is called at most once, and a chart or an error that has
\* been set is never replaced.
C17_OneUploadPerApp ==
    /\ [](InFlight => isLoading /\ ~InputRendered)
    /\ [](Finished => (chartData # NULL \/ error # NULL) /\ ~InputRendered)
    /\ [](calls <= 1)
    /\ [][/\ Finished => Finished'
          /\ chartData # NULL => chartData' = chartData
          /\ error # NULL => error' = error
          /\ InputRendered' => InputRendered]_vars

\* an upload that has run processParquetData and finished with a chart
C17_Witness ==
    Finished /\ calls = 1 /\ chartData # NULL /\ ~isLoading /\ ~InputRendered
-----------------------------------------------------------------------------
(* Links point at the nodes of their edges *)

\* link k has numeric ends inside nodes, at the keys of the two ends of edge k
EndsAtItsNodes(k) ==
    /\ proc.data.links[k].source \in 0..(Len(proc.data.nodes) - 1)
    /\ proc.data.links[k].target \in 0..(Len(proc.data.nodes) - 1)
    /\ proc.data.nodes[proc.data.links[k].source + 1]
           = <<proc.linkRows[k].level_from, proc.linkRows[k].cat_from>>
    /\ proc.data.nodes[proc.data.links[k].target + 1]
           = <<proc.linkRows[k].level_to, proc.linkRows[k].cat_to>>

\* C18: every returned link has a source and a target that are indices into
\* nodes, nodes[source] being the label of the edge's source year and bucket
\* and nodes[target] that of its target year and bucket; node_colors, xs and
\* ys are as long as nodes; no label occurs twice in nodes.
C18_LinksIndexNodes ==
    (Ran /\ proc.ok) =>
        /\ DOMAIN proc.data.links = DOMAIN proc.linkRows
        /\ \A k \in DOMAIN proc.data.links : EndsAtItsNodes(k)
        /\ Len(proc.data.node_colors) = Len(proc.data.nodes)
        /\ Len(proc.data.xs) = Len(proc.data.nodes)
        /\ Len(proc.data.ys) = Len(proc.data.nodes)
        /\ \A i, j \in NodeIndices :
              proc.data.nodes[i] = proc.data.nodes[j] => i = j

\* a run with an exit edge, whose ends are two nodes of one year, and an
\* active edge, whose ends are nodes of consecutive years of the grid
C18_Witness ==
    /\ pc = "done" /\ proc.ok
    /\ \E k, e \in DOMAIN proc.data.links :
          /\ proc.linkRows[k].flow_type = "active"
          /\ proc.linkRows[e].flow_type = "exit"
          /\ proc.data.links[k].target > proc.data.links[k].source
          /\ proc.data.links[k].source > 0
          /\ proc.data.links[e].target > proc.data.links[e].source
          /\ YearOfNode(proc.data.links[e].target + 1)
                 = YearOfNode(proc.data.links[e].source + 1)

=============================================================================
